---- MODULE Spec2Model ----
(***************************************************************************)
(* Model of the two NAV comparison scripts                                 *)
(*   variant 1: the closed-end script  (V1.3)                              *)
(*   variant 2: the open-end script    (V1.2, with the normalizer)         *)
(* Both scripts load the product lookup table, then for every batch folder *)
(* read each workbook inside one try/except, merge the collected series,   *)
(* resample them to a daily calendar and write one report.                 *)
(*                                                                         *)
(* Floating point values are modelled as exact fractions n/d; d = 0 holds  *)
(* the non-finite values: 1/0 is +inf, -1/0 is -inf and 0/0 is NaN, which  *)
(* is also pandas' null.  Dates are day numbers 1..MaxDay and NaT is 0.    *)
(* Product names are ASCII stand-ins; HasMarker tells which of them carry  *)
(* the reference-group marker of the scripts.  The chart objects and the   *)
(* resampled copy of the normalized table are presentation outputs that    *)
(* are not represented.                                                    *)
(***************************************************************************)
EXTENDS Integers, Sequences, FiniteSets, TLC

\* ------------------------------------------------------------- bounds
MaxDay  == 3        \* dates are the days 1..MaxDay
MaxRows == 2        \* rows of a history sheet, entries of a series
MaxCodes == 2       \* rows of a registration-code column

Days == 1..MaxDay
Vals == {0, 1, 2}   \* unit NAV values found in the sheets

\* ------------------------------------------------------------- values
NaT == 0
NaN == [n |-> 0, d |-> 0]

Range(s) == {s[i] : i \in DOMAIN s}

Abs(x)  == IF x < 0 THEN -x ELSE x
Sign(x) == IF x > 0 THEN 1 ELSE IF x < 0 THEN -1 ELSE 0

RECURSIVE Gcd(_, _)
Gcd(a, b) == IF b = 0 THEN a ELSE Gcd(b, a % b)

\* the float n/d in lowest terms, d >= 0
Float(n, d) ==
    IF d = 0 THEN [n |-> Sign(n), d |-> 0]
    ELSE LET g == Gcd(Abs(n), Abs(d))
             s == Sign(d)
         IN  [n |-> (s * n) \div g, d |-> (s * d) \div g]

FromInt(v) == [n |-> v, d |-> 1]
notna(x)   == x # NaN
IsFinite(x) == x.d # 0

FAdd(a, b) == IF a = NaN \/ b = NaN THEN NaN ELSE Float(a.n * b.d + b.n * a.d, a.d * b.d)
FSub(a, b) == IF a = NaN \/ b = NaN THEN NaN ELSE Float(a.n * b.d - b.n * a.d, a.d * b.d)
FMul(a, b) == IF a = NaN \/ b = NaN THEN NaN ELSE Float(a.n * b.n, a.d * b.d)
\* IEEE division: x/0 is inf for x # 0 and NaN for x = 0
FDiv(a, b) == IF a = NaN \/ b = NaN THEN NaN
              ELSE Float(a.n * b.d * (IF b.n < 0 THEN -1 ELSE 1), a.d * Abs(b.n))

\* ------------------------------------------------------------- sequences
RECURSIVE Insert(_, _)
Insert(s, x) ==
    IF s = <<>> THEN <<x>>
    ELSE IF x < s[Len(s)] THEN Append(Insert(SubSeq(s, 1, Len(s) - 1), x), s[Len(s)])
    ELSE Append(s, x)

RECURSIVE SortDates(_)
SortDates(s) == IF s = <<>> THEN <<>> ELSE Insert(SortDates(SubSeq(s, 1, Len(s) - 1)), s[Len(s)])

SetMin(S) == CHOOSE x \in S : \A y \in S : x <= y
SetMax(S) == CHOOSE x \in S : \A y \in S : x >= y

\* Index.min(): NaT on an empty index
IndexMin(idx) == IF idx = <<>> THEN NaT ELSE SetMin(Range(idx))
IndexMax(idx) == IF idx = <<>> THEN NaT ELSE SetMax(Range(idx))

IsSorted(s) == \A i \in 1..(Len(s) - 1) : s[i] < s[i + 1]

RECURSIVE SortedSeqOf(_)
SortedSeqOf(S) == IF S = {} THEN <<>> ELSE <<SetMin(S)>> \o SortedSeqOf(S \ {SetMin(S)})

\* ------------------------------------------------------------- sheet cells
\* A date cell is an Excel datetime (v is its day), a text (v >= 1: the text
\* spells day v; v = -1: it spells no date) or an empty cell.
DateCells ==
    {[t |-> "datetime", v |-> d] : d \in Days}
        \cup {[t |-> "text", v |-> 1], [t |-> "text", v |-> -1], [t |-> "null", v |-> 0]}

\* A NAV cell is a number, a text (v >= 0: the text spells the number v;
\* v = -1: it spells no number) or an empty cell.
NavCells ==
    {[t |-> "num", v |-> x] : x \in Vals}
        \cup {[t |-> "text", v |-> 1], [t |-> "text", v |-> -1], [t |-> "null", v |-> 0]}

SheetRows == [date : DateCells, nav : NavCells]

RECURSIVE SeqsUpTo(_, _)
\* the sequences over S of length at most n
SeqsUpTo(S, n) ==
    IF n = 0 THEN {<<>>}
    ELSE LET shorter == SeqsUpTo(S, n - 1)
         IN  shorter \cup {Append(s, x) : s \in {q \in shorter : Len(q) = n - 1}, x \in S}

\* ------------------------------------------------------------- NAV extractor
\* df[[dc, nc]].dropna(): drop the rows with an empty cell
DropNaRows(rows) == SelectSeq(rows, LAMBDA r : r.date.t # "null" /\ r.nav.t # "null")

\* pd.to_datetime(errors='coerce')
ToDatetime(cell) ==
    IF cell.t = "datetime" \/ (cell.t = "text" /\ cell.v >= 1) THEN cell.v ELSE NaT

\* pd.to_numeric(errors='coerce')
ToNumeric(cell) ==
    IF cell.t = "num" \/ (cell.t = "text" /\ cell.v >= 0) THEN FromInt(cell.v) ELSE NaN

Coerce(rows) ==
    [i \in DOMAIN rows |-> [date |-> ToDatetime(rows[i].date), nav |-> ToNumeric(rows[i].nav)]]

\* dropna(subset=['date', prod])
DropNaSubset(t) == SelectSeq(t, LAMBDA r : r.date # NaT /\ notna(r.nav))

RECURSIVE GroupFirst(_, _, _)
\* first non-null value among the rows i..Len(t) dated d
GroupFirst(t, d, i) ==
    IF i > Len(t) THEN NaN
    ELSE IF t[i].date = d /\ notna(t[i].nav) THEN t[i].nav
    ELSE GroupFirst(t, d, i + 1)

RECURSIVE GroupLast(_, _, _)
\* GroupBy.last(): last non-null value among the rows 1..i dated d
GroupLast(t, d, i) ==
    IF i = 0 THEN NaN
    ELSE IF t[i].date = d /\ notna(t[i].nav) THEN t[i].nav
    ELSE GroupLast(t, d, i - 1)

\* groupby('date').first(): the first row of a date wins
GroupByDateFirst(t) ==
    LET keys == SortedSeqOf({t[i].date : i \in DOMAIN t})
    IN  [index |-> keys, col |-> [d \in Range(keys) |-> GroupFirst(t, d, 1)]]

\* groupby('date').last(): one row per date, dates ascending
GroupByDateLast(t) ==
    LET keys == SortedSeqOf({t[i].date : i \in DOMAIN t})
    IN  [index |-> keys, col |-> [d \in Range(keys) |-> GroupLast(t, d, Len(t))]]

\* the series of one history sheet
ExtractSeries(rows) == GroupByDateLast(DropNaSubset(Coerce(DropNaRows(rows))))

\* ------------------------------------------------------------- product_nav
\* A dict keeps its keys in insertion order; assigning to a key that is
\* already there keeps the key's place and replaces its value.
EmptyDict == [keys |-> <<>>, val |-> <<>>]

DictSet(dct, k, v) ==
    [keys |-> IF k \in Range(dct.keys) THEN dct.keys ELSE Append(dct.keys, k),
     val  |-> [x \in Range(dct.keys) \cup {k} |-> IF x = k THEN v ELSE dct.val[x]]]

\* ------------------------------------------------------------- merger
\* A table: index (dates, in row order), columns (names, in column order)
\* and cell[c][d] for every column c and every date d of the index.
AppendNew(idx, more) == idx \o SelectSeq(more, LAMBDA d : d \notin Range(idx))

RECURSIVE UnionIndexes(_, _)
\* the outer join of the indexes of the first i frames, first appearance first
UnionIndexes(pn, i) ==
    IF i = 0 THEN <<>> ELSE AppendNew(UnionIndexes(pn, i - 1), pn.val[pn.keys[i]].index)

\* pd.concat(product_nav.values(), axis=1)
Concat(pn) ==
    LET idx == UnionIndexes(pn, Len(pn.keys))
    IN  [index   |-> idx,
         columns |-> pn.keys,
         cell    |-> [c \in Range(pn.keys) |->
                        [d \in Range(idx) |->
                            IF d \in Range(pn.val[c].index) THEN pn.val[c].col[d] ELSE NaN]]]

\* a merge that leaves the rows in the order of first appearance
KeepIndexOrder(df) == df

\* DataFrame.sort_index()
SortIndex(df) == [df EXCEPT !.index = SortDates(df.index)]

\* ------------------------------------------------------------- normalizer
FabNames == {"FabA", "FabB"}

\* the reference-group marker test: '<marker>' in c
HasMarker(c) == c \in FabNames

NormSuffix == "(unified)"

\* fab_cols
FabCols(df) == SelectSeq(df.columns, HasMarker)

\* the earliest date of the whole table
StartOfTable(df_raw) == IndexMin(df_raw.index)

\* start = df_raw[fab_cols].dropna(how='all').index.min()
Start(df_raw) ==
    LET fab == Range(FabCols(df_raw))
    IN  IndexMin(SelectSeq(df_raw.index,
                           LAMBDA d : \E c \in fab : notna(df_raw.cell[c][d])))

\* df[name] = column: a new column goes last
AddColumn(df, name, column) ==
    [index   |-> df.index,
     columns |-> IF name \in Range(df.columns) THEN df.columns ELSE Append(df.columns, name),
     cell    |-> [c \in Range(df.columns) \cup {name} |-> IF c = name THEN column ELSE df.cell[c]]]

RECURSIVE NormLoop(_, _, _)
\* df_norm after the loop has visited the first i columns of df_raw
NormLoop(df_raw, start, i) ==
    IF i = 0 THEN df_raw
    ELSE LET prev == NormLoop(df_raw, start, i - 1)
             col  == df_raw.columns[i]
         IN  IF HasMarker(col) THEN prev
             ELSE IF start \in Range(df_raw.index) /\ notna(df_raw.cell[col][start])
                  THEN AddColumn(prev, col \o NormSuffix,
                                 [d \in Range(df_raw.index) |->
                                     FDiv(df_raw.cell[col][d], df_raw.cell[col][start])])
                  ELSE prev

RECURSIVE Order(_, _, _)
\* order: every raw column, followed by its normalized column if there is one
Order(df_raw, df_norm, i) ==
    IF i = 0 THEN <<>>
    ELSE LET c  == df_raw.columns[i]
             nu == c \o NormSuffix
         IN  Order(df_raw, df_norm, i - 1) \o <<c>>
                 \o (IF nu \in Range(df_norm.columns) THEN <<nu>> ELSE <<>>)

\* df[order]
SelectColumns(df, order) ==
    [index |-> df.index, columns |-> order, cell |-> [c \in Range(order) |-> df.cell[c]]]

\* df_norm of the normalizing script
Normalize(df_raw, start) ==
    LET appended == NormLoop(df_raw, start, Len(df_raw.columns))
    IN  SelectColumns(appended, Order(df_raw, appended, Len(df_raw.columns)))

\* ------------------------------------------------------------- resampling
\* pd.date_range(a, b, freq='D'), for dates a <= b
DateRange(a, b) == [i \in 1..(b - a + 1) |-> a + i - 1]

\* DataFrame.reindex(idx): rows that were not there are null
Reindex(df, idx) ==
    [index   |-> idx,
     columns |-> df.columns,
     cell    |-> [c \in Range(df.columns) |->
                    [d \in Range(idx) |-> IF d \in Range(df.index) THEN df.cell[c][d] ELSE NaN]]]

\* forward fill: a gap takes the value before it
PadColumn(idx, col) ==
    LET n     == Len(idx)
        valid == {i \in 1..n : notna(col[idx[i]])}
        At(i) == IF {v \in valid : v <= i} = {} THEN NaN
                 ELSE col[idx[SetMax({v \in valid : v <= i})]]
    IN  [d \in Range(idx) |-> At(CHOOSE i \in 1..n : idx[i] = d)]

\* Series.interpolate('linear') with its defaults (limit_direction='forward',
\* no limit_area): rows are equally spaced; nulls before the first valid
\* value are kept, np.interp fills the nulls between two valid values on the
\* line through them and the nulls after the last valid value with that
\* last value.
InterpolateColumn(idx, col) ==
    LET n     == Len(idx)
        y(i)  == col[idx[i]]
        valid == {i \in 1..n : notna(y(i))}
        At(i) ==
            IF i \in valid THEN y(i)
            ELSE IF valid = {} THEN NaN
            ELSE IF i < SetMin(valid) THEN NaN
            ELSE IF i > SetMax(valid) THEN y(SetMax(valid))
            ELSE LET lo    == SetMax({v \in valid : v < i})
                     hi    == SetMin({v \in valid : v > i})
                     slope == FDiv(FSub(y(hi), y(lo)), FromInt(hi - lo))
                 IN  FAdd(FMul(slope, FromInt(i - lo)), y(lo))
    IN  [d \in Range(idx) |-> At(CHOOSE i \in 1..n : idx[i] = d)]

\* DataFrame.interpolate('linear'): every column on its own
Interpolate(df) ==
    [df EXCEPT !.cell = [c \in Range(df.columns) |-> InterpolateColumn(df.index, df.cell[c])]]

\* df.reindex(full_idx).interpolate('linear')
Resample(df, full_idx) == Interpolate(Reindex(df, full_idx))

\* ------------------------------------------------------------- product info
\* A registration-code cell is an integer, a text or an empty cell.
CodeCells ==
    {[t |-> "int", v |-> 1, s |-> ""], [t |-> "int", v |-> 2, s |-> ""],
     [t |-> "str", v |-> 0, s |-> "1"], [t |-> "str", v |-> 0, s |-> "2.0"],
     [t |-> "null", v |-> 0, s |-> ""]}

\* the dtype pandas gives a column read from a sheet
Dtype(cells) ==
    IF cells = <<>> \/ \E i \in DOMAIN cells : cells[i].t = "str" THEN "object"
    ELSE IF \E i \in DOMAIN cells : cells[i].t = "null" THEN "float64"
    ELSE "int64"

\* str() of one cell of a column of the given dtype
StrOf(cell, dtype) ==
    IF cell.t = "null" THEN "nan"
    ELSE IF cell.t = "str" THEN cell.s
    ELSE IF dtype = "float64" THEN ToString(cell.v) \o ".0"
    ELSE ToString(cell.v)

\* Series.astype(str)
AsTypeStr(cells) == [i \in DOMAIN cells |-> StrOf(cells[i], Dtype(cells))]

\* df_l[code column].dropna().astype(str).tolist(); dropna keeps the dtype
LatestCodes(cells) ==
    {StrOf(cells[i], Dtype(cells)) : i \in {j \in DOMAIN cells : cells[j].t # "null"}}

RECURSIVE Take(_, _, _)
\* df[mask]: the rows 1..i whose mask is true, in order
Take(rows, mask, i) ==
    IF i = 0 THEN <<>>
    ELSE IF mask[i] THEN Append(Take(rows, mask, i - 1), rows[i])
    ELSE Take(rows, mask, i - 1)

\* the codes compared as the cells are, without astype(str)
InfoRowsUncoerced(rows, codes) ==
    Take(rows, [i \in DOMAIN rows |-> rows[i].code.t # "null" /\
                    (IF rows[i].code.t = "str" THEN rows[i].code.s
                     ELSE ToString(rows[i].code.v)) \in codes], Len(rows))

\* df_query[df_query[code column].astype(str).isin(codes_in_folder)]
InfoRows(rows, codes) ==
    LET strs == AsTypeStr([i \in DOMAIN rows |-> rows[i].code])
    IN  Take(rows, [i \in DOMAIN rows |-> strs[i] \in codes], Len(rows))

\* the lookup table as read from the sheet: row k holds the k-th code cell
TableOf(cells) == [k \in DOMAIN cells |-> [code |-> cells[k], row |-> k]]

\* ------------------------------------------------------------- state
VARIABLES
    variant,          \* 1: the closed-end script, 2: the open-end script
    df_query,         \* the lookup table, or not loaded
    pc,               \* "load", "folders", "files", "written", "skipped", "aborted"
    batch,            \* folders entered so far
    nfiles,           \* workbooks of the current folder read so far
    xls,              \* the workbook read last
    product_nav,      \* product name -> series, of the current folder
    codes_in_folder,  \* the registration codes of the current folder
    log,              \* what the current folder printed
    out               \* the report of the current folder

vars == <<variant, df_query, pc, batch, nfiles, xls, product_nav, codes_in_folder, log, out>>

NoQuery  == [loaded |-> FALSE, rows |-> <<>>]
NoReport == [written |-> FALSE]
NoFile   == [prod |-> "", raises |-> "none",
             hist |-> [sheet |-> FALSE, cols |-> FALSE, rows |-> <<>>],
             latest |-> [sheet |-> FALSE, col |-> FALSE, cells |-> <<>>]]

\* the closed-end script prints a warning where the open-end one is silent
Warn(kind, f) == IF variant = 1 THEN <<[kind |-> kind, prod |-> f.prod]>> ELSE <<>>

\* ------------------------------------------------------------- lookup table
\* q: is there a lookup workbook, can it be read, and its code column
LoadQuery(pool) ==
    /\ pc = "load"
    /\ \E q \in pool :
          /\ df_query' = IF q.found /\ q.readable
                         THEN [loaded |-> TRUE, rows |-> TableOf(q.cells)]
                         ELSE NoQuery
          /\ log' = <<[kind |-> IF ~q.found THEN "query_missing"
                                ELSE IF q.readable THEN "query_loaded" ELSE "query_failed",
                       prod |-> ""]>>
    /\ pc' = "folders"
    /\ UNCHANGED <<variant, batch, nfiles, xls, product_nav, codes_in_folder, out>>

\* ------------------------------------------------------------- folder loop
\* the next folder: product_nav = {}, codes_in_folder = set()
NextBatch(limit) ==
    /\ pc \in {"folders", "written", "skipped"}
    /\ batch < limit
    /\ batch' = batch + 1
    /\ nfiles' = 0
    /\ xls' = NoFile
    /\ product_nav' = EmptyDict
    /\ codes_in_folder' = {}
    /\ log' = <<>>
    /\ out' = NoReport
    /\ pc' = "files"
    /\ UNCHANGED <<variant, df_query>>

\* ------------------------------------------------------------- one workbook
\* The history part of the try block.  f.raises tells where reading f
\* raises: "open" (pd.ExcelFile), "hist" (parsing the history sheet or
\* testing its column names), "latest" (parsing the latest-NAV sheet).
HistPart(f, pn) ==
    IF f.raises = "open" THEN [pn |-> pn, log |-> <<>>, raised |-> TRUE]
    ELSE IF ~f.hist.sheet THEN [pn |-> pn, log |-> Warn("no_history_sheet", f), raised |-> FALSE]
    ELSE IF f.raises = "hist" THEN [pn |-> pn, log |-> <<>>, raised |-> TRUE]
    ELSE IF ~f.hist.cols THEN [pn |-> pn, log |-> Warn("no_columns", f), raised |-> FALSE]
    ELSE [pn |-> DictSet(pn, f.prod, ExtractSeries(f.hist.rows)), log |-> <<>>, raised |-> FALSE]

\* The registration-code part of the try block.
CodesPart(f, codes) ==
    IF ~df_query.loaded THEN [codes |-> codes, log |-> <<>>, raised |-> FALSE]
    ELSE IF ~f.latest.sheet THEN [codes |-> codes, log |-> Warn("no_latest_sheet", f), raised |-> FALSE]
    ELSE IF f.raises = "latest" THEN [codes |-> codes, log |-> <<>>, raised |-> TRUE]
    ELSE IF ~f.latest.col THEN [codes |-> codes, log |-> Warn("no_code_column", f), raised |-> FALSE]
    ELSE [codes |-> codes \cup LatestCodes(f.latest.cells), log |-> <<>>, raised |-> FALSE]

\* one pass of the file loop: the try block and its except clause
ReadFile(pool, limit) ==
    /\ pc = "files"
    /\ nfiles < limit
    /\ \E f \in pool :
          LET h == HistPart(f, product_nav)
              c == IF h.raised THEN [codes |-> codes_in_folder, log |-> <<>>, raised |-> TRUE]
                   ELSE CodesPart(f, codes_in_folder)
          IN  /\ xls' = f
              /\ product_nav' = h.pn
              /\ codes_in_folder' = c.codes
              /\ log' = log \o h.log \o c.log
                          \o (IF c.raised THEN <<[kind |-> "read_error", prod |-> f.prod]>> ELSE <<>>)
    /\ nfiles' = nfiles + 1
    /\ UNCHANGED <<variant, df_query, pc, batch, out>>

\* ------------------------------------------------------------- the report
\* the tables written for a folder whose merged table has a first date
Report(df_raw) ==
    LET start    == Start(df_raw)
        full_idx == DateRange(IndexMin(df_raw.index), IndexMax(df_raw.index))
        info     == df_query.loaded /\ codes_in_folder # {}
        df_info  == IF info THEN InfoRows(df_query.rows, codes_in_folder) ELSE <<>>
    IN  IF variant = 2
        THEN [written     |-> TRUE,
              df_raw      |-> df_raw,
              start       |-> start,
              df_norm     |-> Normalize(df_raw, start),
              df_plot_raw |-> Resample(df_raw, full_idx),
              has_info    |-> info,
              df_info     |-> df_info]
        ELSE [written     |-> TRUE,
              df_raw      |-> df_raw,
              df_plot_raw |-> Resample(df_raw, full_idx),
              has_info    |-> info,
              df_info     |-> df_info]

\* after the file loop: skip an empty product_nav, else merge, normalize,
\* resample and write; pd.date_range raises ValueError on NaT bounds and
\* nothing catches it
FinishBatch ==
    /\ pc = "files"
    /\ IF product_nav.keys = <<>>
       THEN /\ pc' = "skipped"
            /\ log' = Append(log, [kind |-> "skip", prod |-> ""])
            /\ out' = NoReport
       ELSE LET df_raw == SortIndex(Concat(product_nav))
            IN  IF IndexMin(df_raw.index) = NaT
                THEN /\ pc' = "aborted"
                     /\ log' = log
                     /\ out' = NoReport
                ELSE /\ pc' = "written"
                     /\ log' = Append(log, [kind |-> "output", prod |-> ""])
                     /\ out' = Report(df_raw)
    /\ UNCHANGED <<variant, df_query, batch, nfiles, xls, product_nav, codes_in_folder>>

\* ------------------------------------------------------------- inputs
ValidRow(d, v) == [date |-> [t |-> "datetime", v |-> d], nav |-> [t |-> "num", v |-> v]]

HistSheet(rows) == [sheet |-> TRUE, cols |-> TRUE, rows |-> rows]
NoHist          == [sheet |-> FALSE, cols |-> FALSE, rows |-> <<>>]
LatestSheet(cells) == [sheet |-> TRUE, col |-> TRUE, cells |-> cells]
NoLatest        == [sheet |-> FALSE, col |-> FALSE, cells |-> <<>>]

\* the workbooks of a run: a few history sheets, among them one with no row
\* and one whose only row is malformed, every place where reading can raise
RunFiles ==
    [prod   : {"FabA", "X"},
     raises : {"none", "open", "hist", "latest"},
     hist   : {NoHist, [sheet |-> TRUE, cols |-> FALSE, rows |-> <<>>],
               HistSheet(<<>>), HistSheet(<<ValidRow(1, 1)>>), HistSheet(<<ValidRow(2, 2)>>),
               HistSheet(<<[date |-> [t |-> "text", v |-> -1], nav |-> [t |-> "num", v |-> 1]]>>)},
     latest : {NoLatest, [sheet |-> TRUE, col |-> FALSE, cells |-> <<>>],
               LatestSheet(<<[t |-> "int", v |-> 1, s |-> ""]>>)}]

RunQueries ==
    {[found |-> FALSE, readable |-> FALSE, cells |-> <<>>],
     [found |-> TRUE, readable |-> FALSE, cells |-> <<>>],
     [found |-> TRUE, readable |-> TRUE,
      cells |-> <<[t |-> "int", v |-> 1, s |-> ""], [t |-> "str", v |-> 0, s |-> "1"]>>]}

\* one workbook with every history sheet of at most MaxRows rows
ExtractFiles ==
    {[prod |-> "X", raises |-> "none", hist |-> HistSheet(rows), latest |-> NoLatest] :
        rows \in SeqsUpTo(SheetRows, MaxRows)}

\* the series an extraction can produce: at most MaxRows dates, ascending
CleanSeries ==
    UNION {{[index |-> SortedSeqOf(S), col |-> f] : f \in [S -> {FromInt(v) : v \in Vals}]} :
              S \in {T \in SUBSET Days : Cardinality(T) <= MaxRows}}

\* the products of product_nav, in the order the file loop met them
KeySeqs == {<<"FabA">>, <<"X">>, <<"FabA", "X">>, <<"X", "FabA">>, <<"FabA", "FabB">>}

\* lookup tables and latest-NAV sheets with every code column of at most
\* MaxCodes cells
JoinQueries ==
    {[found |-> FALSE, readable |-> FALSE, cells |-> <<>>],
     [found |-> TRUE, readable |-> FALSE, cells |-> <<>>]}
        \cup {[found |-> TRUE, readable |-> TRUE, cells |-> cs] : cs \in SeqsUpTo(CodeCells, MaxCodes)}

JoinFiles ==
    {[prod |-> "X", raises |-> "none", hist |-> HistSheet(<<ValidRow(1, 1)>>), latest |-> l] :
        l \in {NoLatest, [sheet |-> TRUE, col |-> FALSE, cells |-> <<>>]}
                 \cup {LatestSheet(cs) : cs \in SeqsUpTo(CodeCells, MaxCodes)}}

\* ------------------------------------------------------------- specifications
InitRun ==
    /\ variant \in {1, 2}
    /\ df_query = NoQuery
    /\ pc = "load"
    /\ batch = 0
    /\ nfiles = 0
    /\ xls = NoFile
    /\ product_nav = EmptyDict
    /\ codes_in_folder = {}
    /\ log = <<>>
    /\ out = NoReport

\* a whole run: the lookup table, then two folders of at most two workbooks
Init == InitRun

Next ==
    \/ LoadQuery(RunQueries)
    \/ NextBatch(2)
    \/ ReadFile(RunFiles, 2)
    \/ FinishBatch

Spec == Init /\ [][Next]_vars

\* the extractor: one folder with one workbook, no lookup table
InitExtract ==
    /\ variant \in {1, 2}
    /\ df_query = NoQuery
    /\ pc = "files"
    /\ batch = 1
    /\ nfiles = 0
    /\ xls = NoFile
    /\ product_nav = EmptyDict
    /\ codes_in_folder = {}
    /\ log = <<>>
    /\ out = NoReport

NextExtract ==
    \/ ReadFile(ExtractFiles, 1)
    \/ FinishBatch

SpecExtract == InitExtract /\ [][NextExtract]_vars

\* merger, normalizer and resampling: the state after the file loop
InitMerge ==
    /\ variant \in {1, 2}
    /\ df_query = NoQuery
    /\ pc = "files"
    /\ batch = 1
    /\ \E ks \in KeySeqs : \E v \in [Range(ks) -> CleanSeries] :
          product_nav = [keys |-> ks, val |-> v]
    /\ nfiles = Len(product_nav.keys)
    /\ xls = NoFile
    /\ codes_in_folder = {}
    /\ log = <<>>
    /\ out = NoReport

NextMerge == FinishBatch

SpecMerge == InitMerge /\ [][NextMerge]_vars

\* the product-info join: one folder with one workbook
NextJoin ==
    \/ LoadQuery(JoinQueries)
    \/ NextBatch(1)
    \/ ReadFile(JoinFiles, 1)
    \/ FinishBatch

SpecJoin == InitRun /\ [][NextJoin]_vars

\* ------------------------------------------------------------- properties
Written == pc = "written"

\* the dates at which column c of table df holds a value
KnownDates(df, c) == {d \in Range(df.index) : notna(df.cell[c][d])}

\* the dates of all the series of product_nav
AllDates == UNION {Range(product_nav.val[p].index) : p \in Range(product_nav.keys)}

\* C1: the merged table's index is the sorted union of the dates of all the
\* series with no date twice, it has one column per product, and the cell of
\* date d and product p is p's value at d, null (not zero) where p has none.
MergedIsOuterJoin ==
    Written =>
        LET df == out.df_raw
        IN  /\ IsSorted(df.index)
            /\ Range(df.index) = AllDates
            /\ df.columns = product_nav.keys
            /\ Len(df.columns) = Cardinality(Range(df.columns))
            /\ \A p \in Range(product_nav.keys) : \A d \in AllDates :
                  df.cell[p][d] = IF d \in Range(product_nav.val[p].index)
                                  THEN product_nav.val[p].col[d]
                                  ELSE NaN

\* two series with different dates, merged out of their order of appearance
MergedWitness ==
    /\ Written
    /\ Len(out.df_raw.columns) = 2
    /\ Len(out.df_raw.index) >= 3
    /\ \E p, q \in Range(product_nav.keys) :
          /\ product_nav.keys = <<p, q>>
          /\ product_nav.val[p].index # <<>>
          /\ product_nav.val[q].index # <<>>
          /\ IndexMin(product_nav.val[q].index) < IndexMin(product_nav.val[p].index)
          /\ \E d \in AllDates : out.df_raw.cell[p][d] = NaN

\* C2: in the resampled table every cell dated before its column's first
\* known value or after its column's last known value is null.
NoExtrapolation ==
    Written =>
        \A c \in Range(out.df_raw.columns) : \A d \in Range(out.df_plot_raw.index) :
            ((\A k \in KnownDates(out.df_raw, c) : d < k)
                \/ (\A k \in KnownDates(out.df_raw, c) : d > k))
                => out.df_plot_raw.cell[c][d] = NaN

\* C3: the resampled table has exactly one row per day from the merged
\* table's first to its last date; known cells keep their value; a cell in a
\* gap lies on the line, by day count, through the nearest earlier and the
\* nearest later known value of its own column.
ResampleIsDailyLinear ==
    Written =>
        LET raw  == out.df_raw
            plot == out.df_plot_raw
            lo   == SetMin(Range(raw.index))
            hi   == SetMax(Range(raw.index))
        IN  /\ Range(plot.index) = lo..hi
            /\ Len(plot.index) = hi - lo + 1
            /\ IsSorted(plot.index)
            /\ plot.columns = raw.columns
            /\ \A c \in Range(raw.columns) : \A d \in lo..hi :
                  LET before == {k \in KnownDates(raw, c) : k < d}
                      after  == {k \in KnownDates(raw, c) : k > d}
                  IN  IF d \in KnownDates(raw, c)
                      THEN plot.cell[c][d] = raw.cell[c][d]
                      ELSE (before # {} /\ after # {}) =>
                              LET d1 == SetMax(before)
                                  d2 == SetMin(after)
                                  v1 == raw.cell[c][d1].n
                                  v2 == raw.cell[c][d2].n
                                  x  == plot.cell[c][d]
                              IN  /\ x.d > 0
                                  /\ x.n * (d2 - d1) = x.d * (v1 * (d2 - d) + v2 * (d - d1))

\* a day that the merged table lacks, between two different known values
ResampleWitness ==
    /\ Written
    /\ \E c \in Range(out.df_raw.columns) : \E d \in Range(out.df_plot_raw.index) :
          /\ d \notin Range(out.df_raw.index)
          /\ \E k1, k2 \in KnownDates(out.df_raw, c) :
                k1 < d /\ d < k2 /\ out.df_raw.cell[c][k1] # out.df_raw.cell[c][k2]
          /\ notna(out.df_plot_raw.cell[c][d])

\* C4: every normalized column holds raw[d] / raw[baseline date] where raw[d]
\* is defined and null where it is null, the raw columns are unchanged and
\* the normalized column stands right after its source column.
NormalizedIsRatio ==
    (Written /\ variant = 2) =>
        LET raw  == out.df_raw
            norm == out.df_norm
        IN  /\ \A c \in Range(raw.columns) : norm.cell[c] = raw.cell[c]
            /\ \A i \in DOMAIN norm.columns :
                  \A c \in Range(raw.columns) :
                      norm.columns[i] = c \o NormSuffix =>
                          /\ ~HasMarker(c)
                          /\ i > 1 /\ norm.columns[i - 1] = c
                          /\ \A d \in Range(raw.index) :
                                LET x    == norm.cell[c \o NormSuffix][d]
                                    r    == raw.cell[c][d]
                                    base == raw.cell[c][out.start]
                                IN  IF r = NaN THEN x = NaN
                                    ELSE /\ base.n # 0
                                         /\ x.d > 0
                                         /\ x.n * base.n * r.d = r.n * base.d * x.d

\* C5: a product whose raw value at the baseline date is null or zero, any
\* product of a batch without reference-group data, and every
\* reference-group product has no normalized column.
OmittedWhenNullOrZero ==
    (Written /\ variant = 2) =>
        \A c \in Range(out.df_raw.columns) :
            (\/ HasMarker(c)
             \/ out.start = NaT
             \/ out.df_raw.cell[c][out.start] = NaN
             \/ out.df_raw.cell[c][out.start] = FromInt(0))
                => (c \o NormSuffix) \notin Range(out.df_norm.columns)

\* C6: when a reference-group column has a value, the baseline date is the
\* earliest date at which any reference-group column has one.
BaselineIsFirstReferenceDate ==
    (Written /\ variant = 2) =>
        LET raw == out.df_raw
            ref == UNION {KnownDates(raw, c) : c \in {x \in Range(raw.columns) : HasMarker(x)}}
        IN  ref # {} => (out.start \in ref /\ \A d \in ref : out.start <= d)

\* the reference group starts after another product, and not on its own
\* first column's first date alone
BaselineWitness ==
    /\ Written /\ variant = 2
    /\ out.start # NaT
    /\ \E d \in Range(out.df_raw.index) : d < out.start
    /\ \E c \in Range(out.df_raw.columns) : ~HasMarker(c)

\* no series of product_nav has an entry
NoUsableSeries == \A p \in Range(product_nav.keys) : product_nav.val[p].index = <<>>

\* C7: every batch ends written or skipped and the run goes on; a batch
\* without any valid (date, value) pair is skipped, with a skip entry in the
\* log and no report.
BatchWrittenOrSkipped ==
    /\ pc # "aborted"
    /\ (pc \in {"written", "skipped"} /\ NoUsableSeries) =>
          /\ pc = "skipped"
          /\ out = NoReport
          /\ log # <<>> /\ log[Len(log)].kind = "skip"

\* C8: a workbook whose reading raises is logged, leaves product_nav and
\* codes_in_folder as they were, and the file loop goes on.
FailedFileContributesNothing ==
    [][(pc = "files" /\ nfiles' = nfiles + 1 /\ log' # <<>>
            /\ log'[Len(log')].kind = "read_error" /\ Len(log') > Len(log))
          => (product_nav' = product_nav /\ codes_in_folder' = codes_in_folder /\ pc' = "files")]_vars

\* the string-coerced code of row k of the lookup table
CodeStr(k) == StrOf(df_query.rows[k].code, Dtype([i \in DOMAIN df_query.rows |-> df_query.rows[i].code]))

ValidRowsOf(d) ==
    {i \in DOMAIN xls.hist.rows :
        LET r == xls.hist.rows[i]
        IN  /\ r.date.t = "datetime" \/ (r.date.t = "text" /\ r.date.v >= 1)
            /\ r.nav.t = "num" \/ (r.nav.t = "text" /\ r.nav.v >= 0)
            /\ r.date.v = d}

\* C10: the series of a history sheet has exactly one entry for every date
\* of a valid row, holding the value of the last valid row of that date, and
\* no entry for any other date.
LastValidRowWins ==
    (nfiles = 1 /\ xls.hist.sheet /\ xls.hist.cols) =>
        LET t == product_nav.val[xls.prod]
        IN  /\ IsSorted(t.index)
            /\ \A d \in Range(t.index) \cup Days :
                  IF ValidRowsOf(d) = {} THEN d \notin Range(t.index)
                  ELSE /\ Cardinality({i \in DOMAIN t.index : t.index[i] = d}) = 1
                       /\ t.col[d] = FromInt(xls.hist.rows[SetMax(ValidRowsOf(d))].nav.v)

\* two valid rows of one date with different values
LastValidRowWitness ==
    /\ nfiles = 1
    /\ Len(xls.hist.rows) >= 2
    /\ \E d \in Days :
          /\ Cardinality(ValidRowsOf(d)) >= 2
          /\ \E i, j \in ValidRowsOf(d) : xls.hist.rows[i].nav.v # xls.hist.rows[j].nav.v
          /\ d \in Range(product_nav.val[xls.prod].index)
====
